---- MODULE Spec2Model ----
(***************************************************************************)
(* State-machine model of the AutoTrader of src/src/autotrader7.py: the    *)
(* quoting loop (on_order_book_update_message), the fill, status and error *)
(* handlers, and the pure imbalance signal assess_market_balance; and of   *)
(* the MatchEventsWriter of src/src/ready_trader_one/match_events.py: the  *)
(* queue it is fed through and its writer thread.                          *)
(*                                                                         *)
(* The handlers run one at a time on the event loop, so each handler is    *)
(* one atomic action.  The exchange is the environment: it may deliver any *)
(* notification for any identifier at any time.                            *)
(***************************************************************************)
EXTENDS Integers, Sequences, FiniteSets

\* ---------------------------------------------------------------------
\* Program constants (autotrader7.py:8-13)
\* ---------------------------------------------------------------------
VOLUME_LIMIT == 200
LOT_SIZE == 10
POSITION_SOFT_LIMIT == 600
POSITION_LIMIT == 1000
MARKET_BALANCE_LIMIT == 2

\* ---------------------------------------------------------------------
\* Bounds of the model
\* ---------------------------------------------------------------------
\* itertools.count(1) is unbounded; a tick is taken only while the
\* identifiers it draws stay at or below MaxOrders.
MaxOrders == 3
\* |position| is unbounded in the code; a fill is delivered only while the
\* resulting |position| stays at or below MaxPosition.
MaxPosition == 1000
\* SpecWriter: an event is published only while fewer than MaxEvents
\* entries were put on the queue.
MaxEvents == 3

\* ---------------------------------------------------------------------
\* Inputs
\* ---------------------------------------------------------------------
\* Top-of-book price ladders, best price first; 0 = no quote at the level.
NoPrices == <<0, 0, 0>>
Asks1 == <<10200, 10300, 10400>>
Asks2 == <<10300, 10400, 10500>>
Bids1 == <<10000, 9900, 9800>>
Bids2 == <<10100, 10000, 9900>>

\* (ask_prices, bid_prices) pairs of the snapshots: a full book, the bid
\* or the ask moved by a tick, one side empty, both sides empty.
PricePairs ==
    { <<Asks1, Bids1>>, <<Asks1, Bids2>>, <<Asks2, Bids1>>,
      <<NoPrices, Bids1>>, <<Asks1, NoPrices>>, <<Asks2, NoPrices>>,
      <<NoPrices, NoPrices>> }

\* Volume ladders of the top three levels; their 0.7/0.2/0.1 weighted sums
\* are 0, 50, 145 and 375.
VolNone == <<0, 0, 0>>
VolThin == <<50, 50, 50>>
VolMid  == <<150, 100, 200>>
VolDeep == <<400, 300, 350>>

\* (ask_volumes, bid_volumes) pairs of the snapshots; the balances they
\* give are 0, 1, 3 and -3.
VolumePairs ==
    { <<VolThin, VolThin>>, <<VolMid, VolNone>>,
      <<VolDeep, VolNone>>, <<VolNone, VolDeep>> }

\* The snapshots: every book of the future, and one book of the ETF.
Snapshots ==
    { <<"FUTURE", p, v>> : p \in PricePairs, v \in VolumePairs }
    \cup { <<"ETF", <<Asks1, Bids1>>, <<VolDeep, VolNone>> >> }

\* Volumes of the fill notifications.
FillVolumes == {165, 495}

\* SpecExchange: the books of the market-data feed, in the order of their
\* sequence numbers.  Both sides are quoted; the ask side is the heavy one
\* (balance 3) or the bid side is (balance -3), and the best bid or the
\* best ask moves by a tick from book to book.
AsksHeavy == <<VolDeep, VolThin>>
BidsHeavy == <<VolThin, VolDeep>>
FeedVolumePairs == { AsksHeavy, BidsHeavy }
Feed ==
    << <<"FUTURE", <<Asks1, Bids1>>, BidsHeavy>>,
       <<"FUTURE", <<Asks1, Bids2>>, AsksHeavy>>,
       <<"FUTURE", <<Asks1, Bids1>>, AsksHeavy>>,
       <<"FUTURE", <<Asks2, Bids1>>, BidsHeavy>>,
       <<"FUTURE", <<Asks1, Bids1>>, BidsHeavy>>,
       <<"FUTURE", <<Asks1, Bids2>>, AsksHeavy>>,
       <<"FUTURE", <<Asks1, Bids1>>, AsksHeavy>>,
       <<"FUTURE", <<Asks1, Bids2>>, AsksHeavy>>,
       <<"FUTURE", <<Asks1, Bids1>>, AsksHeavy>> >>

\* SpecNotify: the books (a full book, then the bid or the ask moved by a
\* tick, all with balance 0) and the fill volume.
NotifySnapshots ==
    { <<"FUTURE", p, <<VolThin, VolThin>> >> :
        p \in { <<Asks1, Bids1>>, <<Asks1, Bids2>>, <<Asks2, Bids1>> } }
NotifyFillVolumes == {495}

\* Identifiers the exchange may name: 0, every identifier the trader can
\* issue, and one it never issues.
OrderIds == 0 .. (MaxOrders + 1)

\* remaining_volume of a status notification.
RemainingVolumes == {0, 5}

\* ---------------------------------------------------------------------
\* Arithmetic helpers (Python built-ins used by the code)
\* ---------------------------------------------------------------------
Abs(x) == IF x < 0 THEN -x ELSE x
Min(a, b) == IF a < b THEN a ELSE b
Max(a, b) == IF a > b THEN a ELSE b

\* ---------------------------------------------------------------------
\* State
\* ---------------------------------------------------------------------
VARIABLES
    position,   \* self.position
    bid_id,     \* self.bid_id   (0 = no live bid)
    ask_id,     \* self.ask_id   (0 = no live ask)
    bid_price,  \* self.bid_price
    ask_price,  \* self.ask_price
    bids,       \* self.bids : identifiers of buy orders still tracked
    asks,       \* self.asks : identifiers of sell orders still tracked
    order_ids,  \* next value of self.order_ids (itertools.count(1))
    sent,       \* instructions emitted by the handler that ran last
    last,       \* the notification handled last
    repeated,   \* last is identical to the notification handled before it
    orders,     \* history: orders[i] = side of the insert with identifier i
    cancelled,  \* history: identifiers for which a cancel was sent
    args,       \* SpecBalance: arguments of the assess_market_balance call
    ret,        \* SpecBalance: its return value, once it has returned
    resting,    \* SpecExchange: resting[i] = volume of order i not yet filled
    delivered,  \* SpecExchange: orders whose closure status was delivered
    sequence_number, \* SpecExchange: sequence number of the last book sent
    queue,      \* MatchEventsWriter.queue
    finished,   \* MatchEventsWriter.finished
    subscribed, \* self.queue.put is in match_events.event_occurred
    writer_pc,  \* position of the writer thread
    count,      \* count of MatchEventsWriter.writer
    loop_closed,\* event_loop.is_closed()
    scheduled   \* history: times on_writer_done was handed to the loop

\* The state of the exchange and of the MatchEventsWriter.
xvars == << resting, delivered, sequence_number >>
wvars == << queue, finished, subscribed, writer_pc, count, loop_closed, scheduled >>

vars == << position, bid_id, ask_id, bid_price, ask_price, bids, asks,
           order_ids, sent, last, repeated, orders, cancelled, args, ret,
           resting, delivered, sequence_number,
           queue, finished, subscribed, writer_pc, count, loop_closed, scheduled >>

ledger == << bid_id, ask_id, bid_price, ask_price, bids, asks >>
history == << orders, cancelled >>

\* ---------------------------------------------------------------------
\* Messages and instructions
\* ---------------------------------------------------------------------
Msg(k, i, v) == [kind |-> k, id |-> i, vol |-> v]
NoMsg == Msg("none", 0, 0)

CancelInstr(i) ==
    [op |-> "cancel", id |-> i, side |-> "NONE", price |-> 0, volume |-> 0,
     lifespan |-> "NONE"]
InsertInstr(i, s, p, v) ==
    [op |-> "insert", id |-> i, side |-> s, price |-> p, volume |-> v,
     lifespan |-> "GOOD_FOR_DAY"]

NoArgs == << VolNone, VolNone >>
\* ret is << >> until the call returns and << value >> afterwards.
NoReturn == << >>

\* ---------------------------------------------------------------------
\* Python float arithmetic (IEEE-754 binary64, round to nearest, ties to
\* even) as far as assess_market_balance uses it.
\*
\* A float is [neg, mag]: a sign and a magnitude.  The magnitude is an
\* exact multiple of 2^-84 written as seven digits of base 2^14, least
\* significant digit first, so that digit 7 is the integer part.  Every
\* float the function meets lies below 2^14 in magnitude and, the final
\* quotient apart, is a multiple of 2^-56, so the representation is exact.
\* ---------------------------------------------------------------------
Base == 2^14
DigitIx == 1 .. 7
BigZero == [i \in DigitIx |-> 0]
BigOne == [i \in DigitIx |-> IF i = 1 THEN 1 ELSE 0]
Digit(a, i) == IF i \in DigitIx THEN a[i] ELSE 0

RECURSIVE AddCarry(_, _, _)
AddCarry(a, b, i) ==
    IF i = 1 THEN 0 ELSE (a[i-1] + b[i-1] + AddCarry(a, b, i-1)) \div Base
BigAdd(a, b) == [i \in DigitIx |-> (a[i] + b[i] + AddCarry(a, b, i)) % Base]

RECURSIVE SubBorrow(_, _, _)
SubBorrow(a, b, i) ==
    IF i = 1 THEN 0
    ELSE IF a[i-1] - b[i-1] - SubBorrow(a, b, i-1) < 0 THEN 1 ELSE 0
\* a - b for a >= b
BigSub(a, b) ==
    [i \in DigitIx |-> (a[i] - b[i] - SubBorrow(a, b, i) + Base) % Base]

RECURSIVE LessFrom(_, _, _)
LessFrom(a, b, i) ==
    IF i = 0 THEN FALSE
    ELSE IF a[i] # b[i] THEN a[i] < b[i]
    ELSE LessFrom(a, b, i-1)
BigLess(a, b) == LessFrom(a, b, 7)

RECURSIVE MulCarry(_, _, _)
MulCarry(a, v, i) ==
    IF i = 1 THEN 0 ELSE (a[i-1] * v + MulCarry(a, v, i-1)) \div Base
\* a * v for a small natural v
BigMulSmall(a, v) == [i \in DigitIx |-> (a[i] * v + MulCarry(a, v, i)) % Base]

RECURSIVE DivRem(_, _, _)
\* remainder of the long division of a by d once digits 7 .. i are done
DivRem(a, d, i) ==
    IF i > 7 THEN 0 ELSE (DivRem(a, d, i+1) * Base + a[i]) % d
BigDivSmall(a, d) ==
    [i \in DigitIx |-> (DivRem(a, d, i+1) * Base + a[i]) \div d]

BigShiftRight(a, k) ==
    LET q == k \div 14
        r == k % 14
    IN  [i \in DigitIx |->
            (Digit(a, i+q) \div 2^r) + (Digit(a, i+q+1) % 2^r) * 2^(14-r)]
BigShiftLeft(a, k) ==
    LET q == k \div 14
        r == k % 14
    IN  [i \in DigitIx |->
            ((Digit(a, i-q) * 2^r) % Base) + (Digit(a, i-q-1) \div 2^(14-r))]

RECURSIVE BitLen(_)
BitLen(n) == IF n = 0 THEN 0 ELSE 1 + BitLen(n \div 2)
BigBitLen(a) ==
    IF a = BigZero THEN 0
    ELSE LET t == CHOOSE i \in DigitIx :
                     a[i] # 0 /\ \A j \in DigitIx : j > i => a[j] = 0
         IN  14 * (t - 1) + BitLen(a[t])

\* Rounding of an exact magnitude to the 53 significant bits of a double:
\* to nearest, ties to even.  sticky says that the exact value lies
\* strictly above a (bits were lost below the last digit).  A magnitude of
\* fewer than 54 bits is kept as it is; with sticky set this happens only
\* below 2^-24, far from any integer.
RoundToDouble(a, sticky) ==
    LET k == BigBitLen(a) - 53
    IN  IF k <= 0 THEN a
        ELSE LET hi == BigShiftRight(a, k)
                 lo == BigSub(a, BigShiftLeft(hi, k))
                 half == BigShiftLeft(BigOne, k - 1)
                 up == \/ BigLess(half, lo)
                       \/ lo = half /\ (sticky \/ hi[1] % 2 = 1)
             IN  BigShiftLeft(IF up THEN BigAdd(hi, BigOne) ELSE hi, k)

Float(n, m) == [neg |-> n, mag |-> m]
\* float(v) of an int v with |v| < 2^14
FloatOfInt(v) ==
    Float(v < 0, [i \in DigitIx |-> IF i = 7 THEN (IF v < 0 THEN -v ELSE v) ELSE 0])
FloatNeg(x) == Float(~x.neg, x.mag)
\* x + y
FloatAdd(x, y) ==
    IF x.neg = y.neg THEN Float(x.neg, RoundToDouble(BigAdd(x.mag, y.mag), FALSE))
    ELSE IF BigLess(x.mag, y.mag)
         THEN Float(y.neg, RoundToDouble(BigSub(y.mag, x.mag), FALSE))
         ELSE Float(x.neg, RoundToDouble(BigSub(x.mag, y.mag), FALSE))
\* x - y
FloatSub(x, y) == FloatAdd(x, FloatNeg(y))
\* v * w for an int v >= 0 and a float w
IntTimesFloat(v, w) == Float(w.neg, RoundToDouble(BigMulSmall(w.mag, v), FALSE))
\* x / d for an int d > 0
FloatDivInt(x, d) ==
    Float(x.neg, RoundToDouble(BigDivSmall(x.mag, d), DivRem(x.mag, d, 1) # 0))
\* int(x): truncation toward zero
IntOfFloat(x) == IF x.neg THEN -(x.mag[7]) ELSE x.mag[7]

\* ---------------------------------------------------------------------
\* assess_market_balance (autotrader7.py:34-55)
\* ---------------------------------------------------------------------
\* weights = [0.7, 0.2, 0.1]: the doubles nearest to the literals,
\* 0x1.6666666666666p-1, 0x1.999999999999ap-3 and 0x1.999999999999ap-4.
weights ==
    << Float(FALSE, <<0, 0, 13104, 3276, 13107, 11468, 0>>),
       Float(FALSE, <<0, 0, 13108, 3276, 13107, 3276, 0>>),
       Float(FALSE, <<0, 0, 6554, 9830, 6553, 1638, 0>>) >>
search_width == Len(weights)

RECURSIVE BalanceLoop(_, _, _, _)
\* The loop of lines 49-51 from level i on, balance being the value so far.
BalanceLoop(balance, ask_volumes, bid_volumes, i) ==
    IF i > search_width THEN balance
    ELSE LET plus == FloatAdd(balance, IntTimesFloat(ask_volumes[i], weights[i]))
             minus == FloatSub(plus, IntTimesFloat(bid_volumes[i], weights[i]))
         IN  BalanceLoop(minus, ask_volumes, bid_volumes, i + 1)

\* The ask_prices and bid_prices arguments only accompany the volumes in
\* the zipped pairs and are never read, so the operator takes the volumes.
assess_market_balance(ask_volumes, bid_volumes) ==
    IntOfFloat(FloatDivInt(BalanceLoop(FloatOfInt(0), ask_volumes, bid_volumes, 1),
                           10^2))

\* The exact quotient (7 a1 + 2 a2 + a3 - 7 b1 - 2 b2 - b3) / 1000 truncated
\* toward zero: the value of the formula in real arithmetic.
ExactBalance(ask_volumes, bid_volumes) ==
    LET n == 7 * ask_volumes[1] + 2 * ask_volumes[2] + ask_volumes[3]
             - 7 * bid_volumes[1] - 2 * bid_volumes[2] - bid_volumes[3]
    IN  IF n >= 0 THEN n \div 1000 ELSE -((-n) \div 1000)

\* The balance of every snapshot of the model, computed once.
BalanceOf ==
    [p \in VolumePairs \cup FeedVolumePairs |-> assess_market_balance(p[1], p[2])]

\* ---------------------------------------------------------------------
\* AutoTrader.__init__ (autotrader7.py:26-32)
\* ---------------------------------------------------------------------
\* MatchEventsWriter.__init__ (match_events.py:102-115); the thread is not
\* started and the event loop is open.
InitWriter ==
    /\ queue = << >>
    /\ finished = FALSE
    /\ subscribed = TRUE
    /\ writer_pc = "unstarted"
    /\ count = 0
    /\ loop_closed = FALSE
    /\ scheduled = 0

\* The exchange holds no order.
InitExchange ==
    /\ resting = << >>
    /\ delivered = {}
    /\ sequence_number = 0

Init ==
    /\ InitWriter
    /\ InitExchange
    /\ position = 0
    /\ bid_id = 0
    /\ ask_id = 0
    /\ bid_price = 0
    /\ ask_price = 0
    /\ bids = {}
    /\ asks = {}
    /\ order_ids = 1
    /\ sent = << >>
    /\ last = NoMsg
    /\ repeated = FALSE
    /\ orders = << >>
    /\ cancelled = {}
    /\ args = NoArgs
    /\ ret = NoReturn

\* The notification msg is handed to its handler.
Deliver(msg) ==
    /\ last' = msg
    /\ repeated' = (msg = last)

\* ---------------------------------------------------------------------
\* on_order_book_update_message (autotrader7.py:68-119)
\* ---------------------------------------------------------------------
\* lines 78-79: prices[0] if prices[0] != 0 else 0
NewPrice(prices) == IF prices[1] # 0 THEN prices[1] ELSE 0

\* lines 81-82
BaseBidVolume(pos) ==
    IF pos > 0 THEN LOT_SIZE
    ELSE Min(Max(LOT_SIZE, Abs(pos)), VOLUME_LIMIT - LOT_SIZE)
\* lines 83-84
BaseAskVolume(pos) ==
    IF pos < 0 THEN LOT_SIZE
    ELSE Min(Max(LOT_SIZE, Abs(pos)), VOLUME_LIMIT - LOT_SIZE)

\* Variants of ScaledBidVolume with a plausible slip each: the clamp of
\* lines 92-93 left out, "balance >= 0" for "balance > 0" on line 91, and
\* the soft-limit test of line 89 left out.
ScaledBidVolume_NoClamp(pos, volume, balance) ==
    IF pos <= POSITION_SOFT_LIMIT /\ balance > 0 THEN volume * balance ELSE volume
ScaledBidVolume_NotNegative(pos, volume, balance) ==
    IF pos <= POSITION_SOFT_LIMIT /\ balance >= 0
    THEN volume * (IF balance > MARKET_BALANCE_LIMIT
                   THEN MARKET_BALANCE_LIMIT ELSE balance)
    ELSE volume
ScaledBidVolume_NoSoftLimit(pos, volume, balance) ==
    IF balance > 0
    THEN volume * (IF balance > MARKET_BALANCE_LIMIT
                   THEN MARKET_BALANCE_LIMIT ELSE balance)
    ELSE volume

\* lines 89-94: the bid volume after the scaling block
ScaledBidVolume(pos, volume, balance) ==
    IF pos <= POSITION_SOFT_LIMIT /\ balance > 0
    THEN volume * (IF balance > MARKET_BALANCE_LIMIT
                   THEN MARKET_BALANCE_LIMIT ELSE balance)
    ELSE volume
\* lines 89-99: the ask volume after the scaling block
ScaledAskVolume(pos, volume, balance) ==
    IF pos <= POSITION_SOFT_LIMIT /\ ~(balance > 0) /\ balance < 0
    THEN volume * (0 - (IF balance < -MARKET_BALANCE_LIMIT
                        THEN -MARKET_BALANCE_LIMIT ELSE balance))
    ELSE volume

\* Variant of WantCancel that compares with the recorded price only.
WantCancel_AnyPrice(id, price, new_price) == id # 0 /\ new_price # price

\* lines 102 and 105: id != 0 and new_price not in (price, 0)
WantCancel(id, price, new_price) == id # 0 /\ new_price \notin {price, 0}

\* Variants of CanInsertBid: the hard-limit test left out, the test for a
\* live bid left out, and the test for an empty side left out.
CanInsertBid_AnyPrice(id, new_price, pos, volume) ==
    id = 0 /\ pos + volume < POSITION_LIMIT
CanInsertBid_NoLimit(id, new_price, pos, volume) == id = 0 /\ new_price # 0
CanInsertBid_WhileLive(id, new_price, pos, volume) ==
    new_price # 0 /\ pos + volume < POSITION_LIMIT

\* line 109
CanInsertBid(id, new_price, pos, volume) ==
    id = 0 /\ new_price # 0 /\ pos + volume < POSITION_LIMIT
\* line 115
CanInsertAsk(id, new_price, pos, volume) ==
    id = 0 /\ new_price # 0 /\ pos - volume > -POSITION_LIMIT

\* Variant of next_order_ids in which the counter does not advance.
next_order_ids_Stuck(counter) == counter
\* lines 110 and 116: next(self.order_ids) returns the counter's value and
\* leaves the counter one higher
next_order_ids(counter) == counter + 1

\* Variant of Emitted in which the insert pass runs before the cancel pass.
Emitted_InsertsFirst(cancel_bid, cancel_ask, insert_bid, insert_ask) ==
    insert_bid \o insert_ask \o cancel_bid \o cancel_ask
\* lines 102-119: the instructions of a tick in the order of the statements
\* that send them
Emitted(cancel_bid, cancel_ask, insert_bid, insert_ask) ==
    cancel_bid \o cancel_ask \o insert_bid \o insert_ask

on_order_book_update_message(instrument, ask_prices, ask_volumes, bid_prices, bid_volumes) ==
    IF instrument = "FUTURE"
    THEN
      LET new_bid_price == NewPrice(bid_prices)
          new_ask_price == NewPrice(ask_prices)
          balance == BalanceOf[<<ask_volumes, bid_volumes>>]
          new_bid_volume ==
              ScaledBidVolume(position, BaseBidVolume(position), balance)
          new_ask_volume ==
              ScaledAskVolume(position, BaseAskVolume(position), balance)
          \* lines 102-107: the cancel pass
          cancel_bid == WantCancel(bid_id, bid_price, new_bid_price)
          cancel_ask == WantCancel(ask_id, ask_price, new_ask_price)
          bid_id_1 == IF cancel_bid THEN 0 ELSE bid_id
          ask_id_1 == IF cancel_ask THEN 0 ELSE ask_id
          \* lines 109-119: the insert pass
          insert_bid ==
              CanInsertBid(bid_id_1, new_bid_price, position, new_bid_volume)
          new_bid_id == order_ids
          order_ids_1 == IF insert_bid THEN next_order_ids(order_ids) ELSE order_ids
          insert_ask ==
              CanInsertAsk(ask_id_1, new_ask_price, position, new_ask_volume)
          new_ask_id == order_ids_1
          order_ids_2 == IF insert_ask THEN next_order_ids(order_ids_1) ELSE order_ids_1
          bid_insert ==
              InsertInstr(new_bid_id, "BUY", new_bid_price, new_bid_volume)
          ask_insert ==
              InsertInstr(new_ask_id, "SELL", new_ask_price, new_ask_volume)
      IN  /\ bid_id' = IF insert_bid THEN new_bid_id ELSE bid_id_1
          /\ bid_price' = IF insert_bid THEN new_bid_price ELSE bid_price
          /\ bids' = IF insert_bid THEN bids \cup {new_bid_id} ELSE bids
          /\ ask_id' = IF insert_ask THEN new_ask_id ELSE ask_id_1
          /\ ask_price' = IF insert_ask THEN new_ask_price ELSE ask_price
          /\ asks' = IF insert_ask THEN asks \cup {new_ask_id} ELSE asks
          /\ order_ids' = order_ids_2
          /\ sent' = Emitted(IF cancel_bid THEN << CancelInstr(bid_id) >> ELSE << >>,
                              IF cancel_ask THEN << CancelInstr(ask_id) >> ELSE << >>,
                              IF insert_bid THEN << bid_insert >> ELSE << >>,
                              IF insert_ask THEN << ask_insert >> ELSE << >>)
          /\ orders' = orders
                       \o (IF insert_bid THEN << "BUY" >> ELSE << >>)
                       \o (IF insert_ask THEN << "SELL" >> ELSE << >>)
          /\ cancelled' = cancelled
                          \cup (IF cancel_bid THEN {bid_id} ELSE {})
                          \cup (IF cancel_ask THEN {ask_id} ELSE {})
          /\ UNCHANGED << position, args, ret >>
    ELSE
          /\ sent' = << >>
          /\ UNCHANGED << position, bid_id, ask_id, bid_price, ask_price, bids,
                          asks, order_ids, orders, cancelled, args, ret >>

\* ---------------------------------------------------------------------
\* on_order_filled_message (autotrader7.py:121-131)
\* ---------------------------------------------------------------------
\* Variants of FilledPosition: a buy fill subtracted, "else" for the
\* "elif" of line 130, and the fill attributed by the sides' live
\* identifiers in the place of the tracked sets.
FilledPosition_LiveOnly(pos, client_order_id, volume, bid_set, ask_set) ==
    IF client_order_id = bid_id THEN pos + volume
    ELSE IF client_order_id = ask_id THEN pos - volume
    ELSE pos
FilledPosition_BuySubtracts(pos, client_order_id, volume, bid_set, ask_set) ==
    IF client_order_id \in bid_set THEN pos - volume
    ELSE IF client_order_id \in ask_set THEN pos - volume
    ELSE pos
FilledPosition_Else(pos, client_order_id, volume, bid_set, ask_set) ==
    IF client_order_id \in bid_set THEN pos + volume ELSE pos - volume

\* lines 128-131: the position after the fill
FilledPosition(pos, client_order_id, volume, bid_set, ask_set) ==
    IF client_order_id \in bid_set THEN pos + volume
    ELSE IF client_order_id \in ask_set THEN pos - volume
    ELSE pos

\* price is not read
on_order_filled_message(client_order_id, price, volume) ==
    /\ position' = FilledPosition(position, client_order_id, volume, bids, asks)
    /\ sent' = << >>
    /\ UNCHANGED << bid_id, ask_id, bid_price, ask_price, bids, asks,
                    order_ids, orders, cancelled, args, ret >>

\* ---------------------------------------------------------------------
\* on_order_status_message (autotrader7.py:133-152)
\* ---------------------------------------------------------------------
\* Variant of StatusBidId that clears the bid side on the closure of any
\* tracked buy order.
StatusBidId_AnyBid(client_order_id, bid, ask) ==
    IF client_order_id \in bids THEN 0 ELSE bid
\* lines 145-146
StatusBidId(client_order_id, bid, ask) ==
    IF client_order_id = bid THEN 0 ELSE bid
\* Variant of StatusAskId with "else" for the "elif" of line 147.
StatusAskId_Else(client_order_id, bid, ask) ==
    IF client_order_id # bid THEN 0 ELSE ask

\* lines 145-148
StatusAskId(client_order_id, bid, ask) ==
    IF client_order_id # bid /\ client_order_id = ask THEN 0 ELSE ask
\* lines 151-152: set.discard
Discard(set, client_order_id) == set \ {client_order_id}

\* fill_volume and fees are not read
on_order_status_message(client_order_id, fill_volume, remaining_volume, fees) ==
    /\ IF remaining_volume = 0
       THEN /\ bid_id' = StatusBidId(client_order_id, bid_id, ask_id)
            /\ ask_id' = StatusAskId(client_order_id, bid_id, ask_id)
            /\ bids' = Discard(bids, client_order_id)
            /\ asks' = Discard(asks, client_order_id)
       ELSE UNCHANGED << bid_id, ask_id, bids, asks >>
    /\ sent' = << >>
    /\ UNCHANGED << position, bid_price, ask_price, order_ids, orders,
                    cancelled, args, ret >>

\* ---------------------------------------------------------------------
\* on_error_message (autotrader7.py:58-66)
\* ---------------------------------------------------------------------
\* Variant of on_error_message that only logs the error.
on_error_message_LogOnly(client_order_id) ==
    /\ sent' = << >>
    /\ UNCHANGED << position, bid_id, ask_id, bid_price, ask_price, bids,
                    asks, order_ids, orders, cancelled, args, ret >>

on_error_message(client_order_id) ==
    IF client_order_id # 0
    THEN on_order_status_message(client_order_id, 0, 0, 0)
    ELSE /\ sent' = << >>
         /\ UNCHANGED << position, bid_id, ask_id, bid_price, ask_price, bids,
                         asks, order_ids, orders, cancelled, args, ret >>

\* ---------------------------------------------------------------------
\* The exchange delivers notifications, one at a time.  Each delivery is
\* the handler's whole run; the bounds of the model are guards on it.
\* ---------------------------------------------------------------------
BookUpdate(snapshot) ==
    /\ on_order_book_update_message(snapshot[1], snapshot[2][1], snapshot[3][1],
                                    snapshot[2][2], snapshot[3][2])
    /\ order_ids' <= MaxOrders + 1
    /\ UNCHANGED << xvars, wvars >>

OrderFilled(client_order_id, volume) ==
    /\ on_order_filled_message(client_order_id, 0, volume)
    /\ Abs(position') <= MaxPosition
    /\ UNCHANGED << xvars, wvars >>

OrderStatus(client_order_id, remaining_volume) ==
    /\ on_order_status_message(client_order_id, 0, remaining_volume, 0)
    /\ UNCHANGED << xvars, wvars >>

Error(client_order_id) ==
    /\ on_error_message(client_order_id)
    /\ UNCHANGED << xvars, wvars >>

\* Spec: every snapshot, fill, status and error, in any order.
OnOrderBookUpdate ==
    /\ \E snapshot \in Snapshots : BookUpdate(snapshot)
    /\ UNCHANGED << last, repeated >>

OnOrderFilled ==
    /\ \E client_order_id \in OrderIds, volume \in FillVolumes :
           OrderFilled(client_order_id, volume)
    /\ UNCHANGED << last, repeated >>

OnOrderStatus ==
    /\ \E client_order_id \in OrderIds, remaining_volume \in RemainingVolumes :
           OrderStatus(client_order_id, remaining_volume)
    /\ UNCHANGED << last, repeated >>

OnError ==
    /\ \E client_order_id \in OrderIds : Error(client_order_id)
    /\ UNCHANGED << last, repeated >>

Next == OnOrderBookUpdate \/ OnOrderFilled \/ OnOrderStatus \/ OnError

Spec == Init /\ [][Next]_vars

\* SpecNotify: the same handlers with the notification handled last kept
\* in the state, over the books of NotifySnapshots.
NotifyBookUpdate ==
    \E snapshot \in NotifySnapshots :
        /\ BookUpdate(snapshot)
        /\ Deliver(Msg("book", 0, 0))

NotifyOrderFilled ==
    \E client_order_id \in OrderIds, volume \in NotifyFillVolumes :
        /\ OrderFilled(client_order_id, volume)
        /\ Deliver(Msg("fill", client_order_id, volume))

NotifyOrderStatus ==
    \E client_order_id \in OrderIds, remaining_volume \in RemainingVolumes :
        /\ OrderStatus(client_order_id, remaining_volume)
        /\ Deliver(Msg("status", client_order_id, remaining_volume))

NotifyError ==
    \E client_order_id \in OrderIds :
        /\ Error(client_order_id)
        /\ Deliver(Msg("error", client_order_id, 0))

NextNotify ==
    NotifyBookUpdate \/ NotifyOrderFilled \/ NotifyOrderStatus \/ NotifyError

SpecNotify == Init /\ [][NextNotify]_vars

\* ---------------------------------------------------------------------
\* SpecBalance: assess_market_balance on its own.  The call starts with
\* any volumes of BalanceLadders at the top three levels of each side and
\* returns once.
\* ---------------------------------------------------------------------
BalanceLevels == {0, 50, 350}
BalanceLadders == { <<a, b, c>> : a \in BalanceLevels, b \in BalanceLevels,
                                  c \in BalanceLevels }

InitBalance ==
    /\ InitWriter
    /\ InitExchange
    /\ position = 0
    /\ bid_id = 0
    /\ ask_id = 0
    /\ bid_price = 0
    /\ ask_price = 0
    /\ bids = {}
    /\ asks = {}
    /\ order_ids = 1
    /\ sent = << >>
    /\ last = NoMsg
    /\ repeated = FALSE
    /\ orders = << >>
    /\ cancelled = {}
    /\ args \in BalanceLadders \X BalanceLadders
    /\ ret = NoReturn

AssessMarketBalance ==
    /\ ret = NoReturn
    /\ ret' = << assess_market_balance(args[1], args[2]) >>
    /\ UNCHANGED << position, bid_id, ask_id, bid_price, ask_price, bids, asks,
                    order_ids, sent, last, repeated, orders, cancelled, args,
                    xvars, wvars >>

NextBalance == AssessMarketBalance

SpecBalance == InitBalance /\ [][NextBalance]_vars

\* ---------------------------------------------------------------------
\* SpecExchange: the trader against an exchange that keeps its books and
\* sends the books of Feed.  An insert rests with its volume.  The exchange
\* fills an order for what rests of it and only before it delivers the
\* order's closure (the status with remaining volume 0), which follows the
\* fill at once.  A trade sweeps a side: once the exchange fills an order
\* it fills every order resting on that side, the oldest first, before it
\* sends the next book.  A cancel is in flight until the closure, so a
\* cancelled order may still fill.
\* ---------------------------------------------------------------------
\* The volumes of the inserts among instrs, in the order of emission.
InsertVolumes(instrs) ==
    LET ins == SelectSeq(instrs, LAMBDA x : x.op = "insert")
    IN  [i \in 1 .. Len(ins) |-> ins[i].volume]

\* Orders filled whose closure is still to be delivered.
Closing == { i \in DOMAIN resting : resting[i] = 0 /\ i \notin delivered }
\* The oldest order of each side with volume resting.
Fillable ==
    { i \in DOMAIN resting :
        /\ resting[i] > 0
        /\ \A j \in DOMAIN resting :
              (j < i /\ orders[j] = orders[i]) => resting[j] = 0 }
\* The orders a sweep under way has still to fill.
Sweeping ==
    IF last.kind \in { "fill", "status" }
    THEN { i \in Fillable : orders[i] = orders[last.id] }
    ELSE {}

ExchangeBookUpdate ==
    /\ Closing = {}
    /\ Sweeping = {}
    /\ sequence_number < Len(Feed)
    /\ LET snapshot == Feed[sequence_number + 1]
       IN  on_order_book_update_message(snapshot[1], snapshot[2][1], snapshot[3][1],
                                        snapshot[2][2], snapshot[3][2])
    /\ sequence_number' = sequence_number + 1
    /\ resting' = resting \o InsertVolumes(sent')
    /\ Deliver(Msg("book", 0, 0))
    /\ UNCHANGED << delivered, wvars >>

ExchangeFill ==
    \E client_order_id \in (IF Sweeping = {} THEN Fillable ELSE Sweeping) :
        /\ Closing = {}
        /\ on_order_filled_message(client_order_id, 0, resting[client_order_id])
        /\ resting' = [resting EXCEPT ![client_order_id] = 0]
        /\ Deliver(Msg("fill", client_order_id, resting[client_order_id]))
        /\ UNCHANGED << delivered, sequence_number, wvars >>

ExchangeClose ==
    \E client_order_id \in Closing :
        /\ on_order_status_message(client_order_id, 0, 0, 0)
        /\ delivered' = delivered \cup {client_order_id}
        /\ Deliver(Msg("status", client_order_id, 0))
        /\ UNCHANGED << resting, sequence_number, wvars >>

NextExchange == ExchangeBookUpdate \/ ExchangeFill \/ ExchangeClose

SpecExchange == Init /\ [][NextExchange]_vars

\* ---------------------------------------------------------------------
\* MatchEventsWriter (match_events.py:99-165).  The main thread publishes
\* events, calls start() and finish() and may close the event loop; the
\* writer thread runs writer().  The two threads share the queue and the
\* event loop, so every access to one of them is a step of its own.
\* ---------------------------------------------------------------------
\* The operations of the events published (MatchEventOperation).
Operations == { "Insert", "Trade" }
\* finish() puts None behind the events.
None == "None"

\* The positions at which writer() has returned or died.
Ended == { "done", "skipped", "raised" }

\* A callback of match_events.event_occurred: self.queue.put (line 112)
Put ==
    \E event \in Operations :
        /\ subscribed
        /\ Len(queue) + count < MaxEvents
        /\ queue' = Append(queue, event)
        /\ UNCHANGED << finished, subscribed, writer_pc, count, loop_closed, scheduled >>

\* lines 123-127; a second call raises ValueError at line 125 and changes
\* nothing
finish ==
    /\ subscribed
    /\ subscribed' = FALSE
    /\ queue' = Append(queue, None)
    /\ finished' = TRUE
    /\ UNCHANGED << writer_pc, count, loop_closed, scheduled >>

\* lines 135-145: the file is open and the thread runs
start ==
    /\ writer_pc = "unstarted"
    /\ writer_pc' = "header"
    /\ UNCHANGED << queue, finished, subscribed, count, loop_closed, scheduled >>

\* The main thread closes the event loop.
CloseLoop ==
    /\ ~loop_closed
    /\ loop_closed' = TRUE
    /\ UNCHANGED << queue, finished, subscribed, writer_pc, count, scheduled >>

\* lines 154-156: the header row; a failed write raises into the finally
\* block
WriterHeader ==
    /\ writer_pc = "header"
    /\ writer_pc' \in { "get", "finally" }
    /\ UNCHANGED << queue, finished, subscribed, count, loop_closed, scheduled >>

\* lines 158-162: fifo.get() blocks on an empty queue; an event is counted
\* and written (a failed write raises into the finally block), None ends
\* the loop
WriterGet ==
    /\ writer_pc = "get"
    /\ queue # << >>
    /\ queue' = Tail(queue)
    /\ IF Head(queue) = None
       THEN writer_pc' = "finally" /\ count' = count
       ELSE writer_pc' \in { "get", "finally" } /\ count' = count + 1
    /\ UNCHANGED << finished, subscribed, loop_closed, scheduled >>

\* Variant of SignalsDone with the "not" of line 164 dropped.
SignalsDone_Inverted(closed) == closed
\* line 164: if not self.event_loop.is_closed()
SignalsDone(closed) == ~closed

\* lines 163-164: the test of the finally block
WriterFinally ==
    /\ writer_pc = "finally"
    /\ writer_pc' = IF SignalsDone(loop_closed) THEN "call" ELSE "skipped"
    /\ UNCHANGED << queue, finished, subscribed, count, loop_closed, scheduled >>

\* line 165: call_soon_threadsafe hands on_writer_done to the loop, or
\* raises RuntimeError if the loop was closed since the test
WriterCall ==
    /\ writer_pc = "call"
    /\ IF loop_closed
       THEN writer_pc' = "raised" /\ scheduled' = scheduled
       ELSE writer_pc' = "done" /\ scheduled' = scheduled + 1
    /\ UNCHANGED << queue, finished, subscribed, count, loop_closed >>

NextWriter ==
    /\ \/ Put \/ finish \/ start \/ CloseLoop
       \/ WriterHeader \/ WriterGet \/ WriterFinally \/ WriterCall
    /\ UNCHANGED << position, bid_id, ask_id, bid_price, ask_price, bids, asks,
                    order_ids, sent, last, repeated, orders, cancelled, args, ret,
                    xvars >>

SpecWriter == Init /\ [][NextWriter]_vars

\* ---------------------------------------------------------------------
\* Derived notions used by the properties
\* ---------------------------------------------------------------------
\* Identifiers issued so far.
Issued == 1 .. (order_ids - 1)
\* Issued identifiers whose closure has been handled: an identifier enters
\* bids or asks when it is issued and leaves only by the discard of lines
\* 151-152.
Closed == Issued \ (bids \cup asks)
\* Orders the trader has inserted and has neither cancelled nor seen closed.
Live(side) == { i \in Issued : orders[i] = side /\ i \notin cancelled /\ i \notin Closed }

Inserts(instrs, side) ==
    { i \in DOMAIN instrs : instrs[i].op = "insert" /\ instrs[i].side = side }
Cancels(instrs) == { i \in DOMAIN instrs : instrs[i].op = "cancel" }
CancelSent(instrs, id) == \E i \in Cancels(instrs) : instrs[i].id = id

BestAsk(snapshot) == snapshot[2][1][1]
BestBid(snapshot) == snapshot[2][2][1]
IsFuture(snapshot) == snapshot[1] = "FUTURE"

\* ---------------------------------------------------------------------
\* Properties
\* ---------------------------------------------------------------------

\* C1: every insert a tick emits keeps the position strictly inside the
\* hard limit if it fills completely: position + v < POSITION_LIMIT for a
\* BUY of volume v, position - v > -POSITION_LIMIT for a SELL.  (A tick
\* leaves the position as it is, and any later handler empties sent.)
C1_HardLimitRespected ==
    /\ \A i \in Inserts(sent, "BUY") : position + sent[i].volume < POSITION_LIMIT
    /\ \A i \in Inserts(sent, "SELL") : position - sent[i].volume > -POSITION_LIMIT
\* A BUY whose volume was doubled by the imbalance scaling, and a SELL, are
\* emitted in one tick.
C1_Witness ==
    /\ \E i \in Inserts(sent, "BUY") :
           sent[i].volume = MARKET_BALANCE_LIMIT * BaseBidVolume(position)
    /\ Inserts(sent, "SELL") # {}
    /\ position # 0

\* C2: among the orders inserted and neither cancelled nor seen closed, at
\* most one is a buy and at most one is a sell; a live order is the one its
\* side's identifier names.
C2_OneLiveOrderPerSide ==
    /\ Cardinality(Live("BUY")) <= 1
    /\ Cardinality(Live("SELL")) <= 1
    /\ Live("BUY") \subseteq {bid_id}
    /\ Live("SELL") \subseteq {ask_id}
\* A buy was cancelled, closed and replaced while the sell stayed live.
C2_Witness ==
    /\ Cardinality(Live("BUY")) = 1
    /\ Cardinality(Live("SELL")) = 1
    /\ \E i \in cancelled : orders[i] = "BUY" /\ i \in Closed

\* C3: on a snapshot of the future a cancel is sent for a side exactly when
\* the side's identifier is non-zero, the desired price is non-zero and the
\* desired price differs from the side's recorded price; no other cancel
\* is sent.  (A step that is a tick on the snapshot satisfies the three
\* conjuncts: stated as "the conjuncts hold or the step is no such tick".)
C3_CancelIff ==
    [][ \A snapshot \in Snapshots :
          IsFuture(snapshot) =>
             \/ /\ CancelSent(sent', bid_id) <=>
                      (bid_id # 0 /\ BestBid(snapshot) # 0
                                  /\ BestBid(snapshot) # bid_price)
                /\ CancelSent(sent', ask_id) <=>
                      (ask_id # 0 /\ BestAsk(snapshot) # 0
                                  /\ BestAsk(snapshot) # ask_price)
                /\ \A i \in Cancels(sent') :
                      sent'[i].id \in {bid_id, ask_id} \ {0}
             \/ ~BookUpdate(snapshot)
      ]_vars
\* The bid moved and its order was cancelled and replaced; the ask did not
\* move and its order was left alone.
C3_Witness ==
    /\ Len(sent) = 2
    /\ sent[1].op = "cancel" /\ sent[1].id = 1
    /\ sent[2].op = "insert" /\ sent[2].side = "BUY" /\ sent[2].price # 0
    /\ ask_id = 2
    /\ ask_price # 0

\* C4: a second delivery of on_order_status_message(id, _, 0, _) right
\* after the first leaves bid_id, ask_id, the tracked id sets and the
\* position as the first delivery left them.
C4_StatusIdempotent ==
    [][ \A id \in OrderIds :
          (last = Msg("status", id, 0) /\ last' = last /\ OrderStatus(id, 0)) =>
             UNCHANGED << bid_id, ask_id, bids, asks, position >>
      ]_vars
\* The closure of the live bid 1 has been delivered twice in a row.
C4_Witness ==
    /\ repeated
    /\ last = Msg("status", 1, 0)
    /\ orders = << "BUY", "SELL" >>
    /\ cancelled = {}
    /\ bid_id = 0
    /\ ask_id = 2

\* C5: a fill for the order that is a side's live identifier moves the
\* position by +volume (bid side) or -volume (ask side) and leaves bid_id
\* and ask_id as they are; a side's live identifier is given up only by a
\* run of on_order_status_message with remaining volume 0 for it (a status
\* notification, or the one on_error_message passes on) or by the trader's
\* own cancel.
C5_FillKeepsOrderLive ==
    [][ /\ \A id \in OrderIds \ {0}, volume \in NotifyFillVolumes :
             (last' = Msg("fill", id, volume) /\ OrderFilled(id, volume)) =>
                /\ id = bid_id => position' = position + volume
                /\ id = ask_id => position' = position - volume
                /\ bid_id' = bid_id
                /\ ask_id' = ask_id
        /\ (bid_id # 0 /\ bid_id' # bid_id) =>
               \/ CancelSent(sent', bid_id)
               \/ last' \in { Msg("status", bid_id, 0), Msg("error", bid_id, 0) }
        /\ (ask_id # 0 /\ ask_id' # ask_id) =>
               \/ CancelSent(sent', ask_id)
               \/ last' \in { Msg("status", ask_id, 0), Msg("error", ask_id, 0) }
      ]_vars
\* Bid 1 has been filled before any status for it and is still the live bid.
C5_Witness ==
    /\ last.kind = "fill"
    /\ last.id = 1
    /\ bid_id = 1
    /\ orders = << "BUY", "SELL" >>
    /\ position = last.vol

\* C6: a fill or a status for an identifier that is in neither tracked set
\* (closed before, or never issued) changes neither the position nor the
\* ledger and emits nothing.
C6_UntrackedIsNoOp ==
    [][ \A id \in OrderIds :
          id \notin (bids \cup asks) =>
             /\ \A volume \in NotifyFillVolumes :
                  (last' = Msg("fill", id, volume) /\ OrderFilled(id, volume)) =>
                     (UNCHANGED << position, ledger >> /\ sent' = << >>)
             /\ \A remaining_volume \in RemainingVolumes :
                  ( /\ last' = Msg("status", id, remaining_volume)
                    /\ OrderStatus(id, remaining_volume) ) =>
                     (UNCHANGED << position, ledger >> /\ sent' = << >>)
      ]_vars
\* A fill has arrived for an order closed before, while the other side was
\* live and the position was not zero.
C6_Witness ==
    /\ last.kind = "fill"
    /\ last.id \in Closed
    /\ position # 0
    /\ ask_id # 0

\* C7: an emitted bid volume is at most MARKET_BALANCE_LIMIT times the base
\* bid volume of lines 81-82, an emitted ask volume at most
\* MARKET_BALANCE_LIMIT times the base ask volume of lines 83-84, and a
\* tick never scales both sides.
C7_MultiplierClamped ==
    /\ \A i \in Inserts(sent, "BUY") :
           /\ sent[i].volume <= MARKET_BALANCE_LIMIT * BaseBidVolume(position)
           /\ sent[i].volume >= BaseBidVolume(position)
    /\ \A i \in Inserts(sent, "SELL") :
           /\ sent[i].volume <= MARKET_BALANCE_LIMIT * BaseAskVolume(position)
           /\ sent[i].volume >= BaseAskVolume(position)
    /\ ~ /\ \E i \in Inserts(sent, "BUY") : sent[i].volume # BaseBidVolume(position)
         /\ \E i \in Inserts(sent, "SELL") : sent[i].volume # BaseAskVolume(position)
\* An ask scaled by the full multiplier is emitted beside an unscaled bid.
C7_Witness ==
    /\ \E i \in Inserts(sent, "SELL") :
           sent[i].volume = MARKET_BALANCE_LIMIT * BaseAskVolume(position)
    /\ \E i \in Inserts(sent, "BUY") : sent[i].volume = BaseBidVolume(position)

\* C8: assess_market_balance returns the weighted difference of the top
\* three ask and bid volumes, divided by 100 and truncated toward zero.
C8_ExactTruncatedBalance ==
    ret # NoReturn => ret[1] = ExactBalance(args[1], args[2])

\* C9: with position 0, no live order, non-zero best bid and best ask and
\* balance 0, a tick emits exactly a BUY of LOT_SIZE at the best bid and
\* then a SELL of LOT_SIZE at the best ask, with fresh identifiers.
C9_FlatQuote ==
    [][ \A snapshot \in Snapshots :
          ( /\ IsFuture(snapshot)
            /\ position = 0 /\ bid_id = 0 /\ ask_id = 0
            /\ BestBid(snapshot) # 0 /\ BestAsk(snapshot) # 0
            /\ BalanceOf[snapshot[3]] = 0
            /\ BookUpdate(snapshot) ) =>
             sent' = << InsertInstr(order_ids, "BUY", BestBid(snapshot), LOT_SIZE),
                        InsertInstr(order_ids + 1, "SELL", BestAsk(snapshot), LOT_SIZE) >>
      ]_vars
\* The first tick of a flat trader has quoted both sides.
C9_Witness ==
    /\ position = 0
    /\ cancelled = {}
    /\ Closed = {}
    /\ Len(sent) = 2
    /\ sent[1] = InsertInstr(1, "BUY", sent[1].price, LOT_SIZE)
    /\ sent[2] = InsertInstr(2, "SELL", sent[2].price, LOT_SIZE)

\* C10: above POSITION_SOFT_LIMIT every emitted bid has volume LOT_SIZE and
\* every emitted ask has volume
\* min(max(LOT_SIZE, |position|), VOLUME_LIMIT - LOT_SIZE) = 190, whatever
\* the balance of the snapshot.
C10_NoScalingAboveSoftLimit ==
    position > POSITION_SOFT_LIMIT =>
        /\ \A i \in Inserts(sent, "BUY") : sent[i].volume = LOT_SIZE
        /\ \A i \in Inserts(sent, "SELL") :
               /\ sent[i].volume = Min(Max(LOT_SIZE, Abs(position)),
                                       VOLUME_LIMIT - LOT_SIZE)
               /\ sent[i].volume = 190
\* Both sides are quoted from a position above the soft limit.
C10_Witness ==
    /\ position > POSITION_SOFT_LIMIT
    /\ Inserts(sent, "BUY") # {}
    /\ Inserts(sent, "SELL") # {}

\* C11: every insert carries an identifier that no earlier insert carried
\* and that is above all of them: it is none of the identifiers issued
\* before the tick, it is tracked by no set and was never cancelled, it is
\* among the identifiers issued after the tick, and the identifiers of one
\* tick increase in the order of emission.
C11_FreshIncreasingIds ==
    [][ /\ \A i \in Inserts(sent', "BUY") \cup Inserts(sent', "SELL") :
             /\ \A k \in Issued : sent'[i].id > k
             /\ sent'[i].id \notin (bids \cup asks \cup cancelled)
             /\ sent'[i].id \in Issued'
             /\ sent'[i].id = Len(orders) + 1 + Cardinality({ j \in Inserts(sent', "BUY") \cup Inserts(sent', "SELL") : j < i })
        /\ \A i, j \in Inserts(sent', "BUY") \cup Inserts(sent', "SELL") :
             i < j => sent'[i].id < sent'[j].id
      ]_vars
\* A third identifier is drawn after a cancel and a closure.
C11_Witness ==
    /\ order_ids = 4
    /\ cancelled # {}
    /\ Closed # {}
    /\ \E i \in Inserts(sent, "BUY") \cup Inserts(sent, "SELL") : sent[i].id = 3

\* C12: on_error_message for a non-zero identifier is a run of
\* on_order_status_message with remaining volume 0 for it: afterwards no
\* side names the identifier and no set tracks it, and the sides and sets
\* are otherwise as they were; on_error_message for identifier 0 leaves the
\* position and the ledger as they were.
C12_ErrorIsClosure ==
    [][ \A id \in OrderIds :
          last' = Msg("error", id, 0) =>
             IF id # 0
             THEN /\ OrderStatus(id, 0)
                  /\ bid_id' # id /\ ask_id' # id
                  /\ id \notin (bids' \cup asks')
                  /\ bid_id' = (IF bid_id = id THEN 0 ELSE bid_id)
                  /\ ask_id' = (IF ask_id = id THEN 0 ELSE ask_id)
                  /\ bids' = bids \ {id} /\ asks' = asks \ {id}
                  /\ UNCHANGED << position, bid_price, ask_price >>
             ELSE UNCHANGED << position, ledger >>
      ]_vars
\* An error for the live ask 2 has cleared the ask side; the bid is live.
C12_Witness ==
    /\ last = Msg("error", 2, 0)
    /\ orders = << "BUY", "SELL" >>
    /\ ask_id = 0
    /\ 2 \in Closed
    /\ bid_id = 1

\* C14: in the instructions of one tick the cancel of an order of a side
\* comes before the insert on that side, and when an insert is emitted
\* every other order of its side was cancelled or closed before.
C14_CancelBeforeInsert ==
    /\ \A i \in Cancels(sent), j \in Inserts(sent, "BUY") \cup Inserts(sent, "SELL") :
           orders[sent[i].id] = sent[j].side => i < j
    /\ \A j \in Inserts(sent, "BUY") \cup Inserts(sent, "SELL") :
           \A k \in Issued \ {sent[j].id} :
               orders[k] = sent[j].side => k \in (cancelled \cup Closed)
\* The ask moved: the resting sell was cancelled and replaced in one tick
\* while the bid stayed.
C14_Witness ==
    /\ \E i \in Cancels(sent), j \in Inserts(sent, "SELL") :
           orders[sent[i].id] = "SELL"
    /\ Inserts(sent, "BUY") = {}
    /\ bid_id # 0

\* C15 as stated: a fill for an order whose cancel has been sent and whose
\* closure has not been handled leaves the position unchanged.
C15_CancelledFillIgnored ==
    [][ \A id \in cancelled \ Closed, volume \in NotifyFillVolumes :
          (last' = Msg("fill", id, volume) /\ OrderFilled(id, volume)) =>
             position' = position
      ]_vars
\* C15, amended: a fill is attributed to every order the sets bids and
\* asks still track, whether or not a side's live identifier names it: a
\* fill for an order whose cancel has been sent and whose closure has not
\* been handled moves the position by +volume (buy) or -volume (sell).
C15_CancelledFillCounted ==
    [][ \A id \in cancelled \ Closed, volume \in NotifyFillVolumes :
          (last' = Msg("fill", id, volume) /\ OrderFilled(id, volume)) =>
             /\ id \notin {bid_id, ask_id}
             /\ orders[id] = "BUY" => position' = position + volume
             /\ orders[id] = "SELL" => position' = position - volume
      ]_vars
\* Buy 1 was cancelled and replaced, and then filled before its closure.
C15_Witness ==
    /\ last.kind = "fill"
    /\ last.id = 1
    /\ 1 \in cancelled \ Closed
    /\ orders[1] = "BUY"
    /\ bid_id = 3
    /\ position = last.vol

\* C16: below -POSITION_SOFT_LIMIT every emitted bid has the base bid
\* volume of lines 81-82 and every emitted ask the base ask volume of lines
\* 83-84.
C16_NoScalingBelowSoftLimit ==
    position < -POSITION_SOFT_LIMIT =>
        /\ \A i \in Inserts(sent, "BUY") : sent[i].volume = BaseBidVolume(position)
        /\ \A i \in Inserts(sent, "SELL") : sent[i].volume = BaseAskVolume(position)

\* C17: every emitted insert has a volume from LOT_SIZE to VOLUME_LIMIT.
C17_VolumeLimitRespected ==
    \A i \in Inserts(sent, "BUY") \cup Inserts(sent, "SELL") :
        LOT_SIZE <= sent[i].volume /\ sent[i].volume <= VOLUME_LIMIT

\* C18: a tick on a snapshot whose best bid is 0 leaves bid_id, bid_price
\* and bids as they were, cancels no buy order and inserts no buy order;
\* likewise for the ask side when the best ask is 0.
C18_EmptySideUntouched ==
    [][ \A snapshot \in Snapshots :
          (IsFuture(snapshot) /\ (BestBid(snapshot) = 0 \/ BestAsk(snapshot) = 0)) =>
             \/ /\ BestBid(snapshot) = 0 =>
                      /\ UNCHANGED << bid_id, bid_price, bids >>
                      /\ Inserts(sent', "BUY") = {}
                      /\ \A i \in Cancels(sent') : sent'[i].id \notin bids
                /\ BestAsk(snapshot) = 0 =>
                      /\ UNCHANGED << ask_id, ask_price, asks >>
                      /\ Inserts(sent', "SELL") = {}
                      /\ \A i \in Cancels(sent') : sent'[i].id \notin asks
             \/ ~BookUpdate(snapshot)
      ]_vars
\* The bid rests at 10100 while a tick quotes the ask at 10300: no book of
\* the model has both prices, so the tick saw an empty bid side and left
\* the resting bid alone.
C18_Witness ==
    /\ bid_id # 0
    /\ bid_id \in bids
    /\ bid_price = 10100
    /\ \E i \in Inserts(sent, "SELL") : sent[i].price = 10300
    /\ Inserts(sent, "BUY") = {}

\* C20: the closure (status with remaining volume 0, or error) of an order
\* whose cancel was sent leaves each side's live identifier as it was, and
\* the live orders stay tracked, so that their fills still move the
\* position.
C20_LateClosureKeepsReplacement ==
    [][ \A id \in cancelled :
          last' \in { Msg("status", id, 0), Msg("error", id, 0) } =>
             /\ UNCHANGED << bid_id, ask_id >>
             /\ bid_id # 0 =>
                   /\ bid_id \in bids'
                   /\ \A volume \in NotifyFillVolumes :
                         FilledPosition(position', bid_id', volume, bids', asks')
                             = position' + volume
             /\ ask_id # 0 =>
                   /\ ask_id \in asks'
                   /\ \A volume \in NotifyFillVolumes :
                         FilledPosition(position', ask_id', volume, bids', asks')
                             = position' - volume
      ]_vars
\* Buy 1 was cancelled and replaced by buy 3, and then the closure of 1
\* arrived: 3 is still the live bid.
C20_Witness ==
    /\ last = Msg("status", 1, 0)
    /\ 1 \in cancelled
    /\ orders[1] = "BUY"
    /\ 1 \in Closed
    /\ bid_id = 3
    /\ 3 \in bids

\* C13 as stated: once the writer thread has ended, on_writer_done has been
\* handed to the event loop exactly once.
C13_SignalledExactlyOnce ==
    /\ scheduled <= 1
    /\ writer_pc \in Ended => scheduled = 1
\* C13, amended: on_writer_done is handed to the event loop at most once,
\* and only by the last step of the writer thread; it is handed over
\* exactly once when the thread ends by that step, and the thread ends
\* without it only when the event loop was closed before.
C13_SignalledOnceUnlessClosed ==
    /\ scheduled = (IF writer_pc = "done" THEN 1 ELSE 0)
    /\ writer_pc \in { "skipped", "raised" } => loop_closed
    /\ (writer_pc \in Ended /\ ~loop_closed) => scheduled = 1
\* The thread wrote two events, met None and signalled; the loop was closed
\* afterwards.
C13_Witness ==
    /\ writer_pc = "done"
    /\ scheduled = 1
    /\ count = 2
    /\ finished
    /\ loop_closed

\* C19: the position stays strictly inside the hard limit against an
\* exchange that fills every order for at most its volume and only before
\* it delivers the order's closure.
C19_PositionWithinLimit ==
    -POSITION_LIMIT < position /\ position < POSITION_LIMIT

====
